---------------------------- MODULE Spec2Model ----------------------------
(***************************************************************************)
(* Buffered_serial_device<Cs_T> (posix-drivers/buffered-serial-device.h):  *)
(* a character device that moves bytes between a CMSIS-like serial driver  *)
(* and two ByteCircularBuffer rings.  One reader thread, one writer        *)
(* thread and the driver's completion callback (interrupt context) share   *)
(* the rings, rx_count_, tx_busy_ and two RTOS semaphores.                 *)
(*                                                                         *)
(* Execution model.  A thread step is one shared-memory access or one      *)
(* call of the code.  A `Critical_section cs` block is entered in one step *)
(* and its body, up to the end of the block, is one more; the callback     *)
(* does not run while a thread is inside a block.  The callback            *)
(* do_signal_event runs in interrupt context: it preempts a thread between *)
(* any two steps and is not preempted by a thread, so it is one step.  The *)
(* serial line and the driver are the environment.                         *)
(*                                                                         *)
(* Bytes are labelled.  The k-th byte that arrives on the line in the      *)
(* model has value k; the i-th byte of the data passed to write() calls    *)
(* has value i.  The code never inspects a byte value, so the labels only  *)
(* make order, loss and duplication visible.                               *)
(***************************************************************************)
EXTENDS Integers, Sequences

\* ------------------------------------------------------------------ bounds
\* Capacity of the rx ring handed to the constructor.
RxCap == 3
\* Capacity of the tx ring handed to the constructor.
TxCap == 3
\* Bytes the serial line delivers in one run.
MaxWire == 4
\* Largest nbyte of a read() call.
MaxReadLen == 2
\* Total bytes of user data passed to write() calls in one run.
MaxTxBytes == 5
\* Largest token count of an RTOS semaphore (1: a binary semaphore).
SemMax == 2

\* Bytes the line delivers in a run of both threads.
CsWire == 1
\* Bytes of user data passed to the write() call in a run of both threads.
CsTxBytes == 4

\* Watermarks of the tx ring: 0 < low < high < capacity.
TxHigh == TxCap - 1
TxLow == TxHigh - 1
RxHigh == RxCap - 1
RxLow == RxHigh - 1

\* std::size_t arithmetic wraps.  TLC's integers are 32-bit signed, so the
\* modulus stands at 2^30 instead of 2^32: all the code does with a wrapped
\* difference is clamp it to a ring's free space.
SizeMod == 2 ^ 30

Min(a, b) == IF a < b THEN a ELSE b

\* ------------------------------------------------------- ByteCircularBuffer
\* A ring is [buf, size, high, low, front, back, len]; buf is the storage,
\* indexed 0 .. size-1.

NewBuffer(size, high, low) ==
    [buf |-> [i \in 0 .. size - 1 |-> 0], size |-> size, high |-> high,
     low |-> low, front |-> 0, back |-> 0, len |-> 0]

clear(b) == [b EXCEPT !.front = 0, !.back = 0, !.len = 0]

\* The cells a ring holds, oldest first.
Contents(b) == [i \in 1 .. b.len |-> b.buf[(b.front + i - 1) % b.size]]

\* pushBack(data, len): the count written and the ring afterwards.
pushBack_n(b, data) == Min(Len(data), b.size - b.len)

pushBack(b, data) ==
    LET k == pushBack_n(b, data)
    IN  [b EXCEPT !.buf = [i \in 0 .. b.size - 1 |->
                            IF (i - b.back) % b.size < k
                            THEN data[((i - b.back) % b.size) + 1]
                            ELSE b.buf[i]],
                  !.back = (b.back + k) % b.size,
                  !.len = b.len + k]

\* popFront(buf, len): the count read, the bytes read and the ring afterwards.
popFront_n(b, n) == Min(n, b.len)

popFront_data(b, n) ==
    [i \in 1 .. popFront_n(b, n) |-> b.buf[(b.front + i - 1) % b.size]]

popFront(b, n) ==
    LET k == popFront_n(b, n)
    IN  [b EXCEPT !.front = (b.front + k) % b.size, !.len = b.len - k]

\* getFrontContiguousBuffer(&p): p is b.front, the result the run of occupied
\* cells from it that does not wrap.
getFrontContiguousBuffer(b) == Min(b.size - b.front, b.len)

\* getBackContiguousBuffer(&p): p is b.back, the result the run of free cells
\* from it that does not wrap.
getBackContiguousBuffer(b) == Min(b.size - b.back, b.size - b.len)

\* advanceFront(n) / advanceBack(n): the count committed (clamped) and the ring.
advanceFront_n(b, n) == Min(n, b.len)

advanceFront(b, n) ==
    LET k == advanceFront_n(b, n)
    IN  [b EXCEPT !.front = (b.front + k) % b.size, !.len = b.len - k]

advanceBack_n(b, n) == Min(n, b.size - b.len)

advanceBack(b, n) ==
    LET k == advanceBack_n(b, n)
    IN  [b EXCEPT !.back = (b.back + k) % b.size, !.len = b.len + k]

\* retreatBack(): un-commits the newest byte.
retreatBack(b) ==
    IF b.len = 0 THEN b
    ELSE [b EXCEPT !.back = (b.back + b.size - 1) % b.size, !.len = b.len - 1]

isBelowHighWaterMark(b) == b.len < b.high
isBelowLowWaterMark(b) == b.len < b.low

\* ------------------------------------------------------------- RTOS glue
\* osSemaphoreRelease on a semaphore that holds `tokens`.
osSemaphoreRelease(tokens) == Min(tokens + 1, SemMax)

\* ------------------------------------------------------------------ state
VARIABLES
    \* Buffered_serial_device members
    rx_sem_,      \* the rx semaphore id: "null", "live", or "deleted" (the
                  \* id of a semaphore that osSemaphoreDelete has destroyed)
    tx_sem_,      \* the tx semaphore id, likewise
    rx_buf_,      \* the rx ring
    tx_buf_,      \* the tx ring, or NoBuf (tx_buf == nullptr)
    rx_count_,    \* driver rx count seen by the last receive event
    tx_busy_,     \* the software "transmit in flight" flag
    \* RTOS
    rx_tokens,    \* tokens of the rx semaphore
    tx_tokens,    \* tokens of the tx semaphore
    cs_,          \* the thread inside a `Critical_section cs` block: "none",
                  \* "reader" or "writer"
    \* driver (os::cmsis::driver::Serial) and the line
    drv,          \* [init, power, tx_en, rx_en]
    drv_rx,       \* the armed receive: [active, ptr, num, cnt]
    drv_tx,       \* the last send: [active, ptr, num]
    wire,         \* bytes the line has delivered so far
    \* the thread that opens the device
    opened,       \* open() has returned 0: the caller holds the device
    o_ret,        \* result of the last open(): "none", "ok", "EEXIST", "ENOSR"
    o_seen,       \* bytes committed when an open() was first refused with
                  \* EEXIST; -1: none was
    c_pc,         \* the position of the thread that closes, in do_close
    \* the reader thread, in do_read
    r_pc, r_n, r_ret,
    r_wakes,      \* waits on the rx semaphore that have returned in this call
    r_first_at,   \* bytes committed before the first read() call; -1: no call
    \* the writer thread, in do_write
    w_pc, w_n, w_count, w_nb, w_ptr, w_ret,
    \* history
    rx_hist,      \* bytes committed to the rx ring by advanceBack, in order
    rd_hist,      \* bytes returned by read() calls, in order
    rx_full_seen, \* the rx ring has been full
    w_base,       \* bytes of user data passed to earlier write() calls
    w_adm,        \* bytes of this write() call pushed into the tx ring
    w_len0,       \* occupancy of the tx ring found by this call's fast path
    w_first,      \* this write() call has not waited yet
    send_status,  \* status of the last driver send issued by write()
    sent_hist,    \* bytes handed to the driver's send, in order
    adm_hist,     \* bytes pushed into the tx ring by write() calls, in order
    assert_failed, \* an assert of the callback has failed
    late_release, \* the callback has called osSemaphoreRelease on a deleted
                  \* or null semaphore id
    tx_released   \* the last transmit event handled by the callback called
                  \* osSemaphoreRelease (tx_sem_)

\* tx_buf == nullptr: a ring of no storage stands for the null pointer.
NoBuf == NewBuffer(0, 0, 0)

devVars == <<rx_sem_, tx_sem_, rx_buf_, tx_buf_, rx_count_, tx_busy_>>
semVars == <<rx_tokens, tx_tokens>>
drvVars == <<drv, drv_rx, drv_tx, wire>>
openVars == <<opened, o_ret, o_seen, c_pc>>
rdVars == <<r_pc, r_n, r_ret, r_wakes, r_first_at, rd_hist>>
wrVars == <<w_pc, w_n, w_count, w_nb, w_ptr, w_ret, w_base, w_adm, w_len0,
            w_first, send_status>>
histVars == <<rx_hist, rx_full_seen, sent_hist, adm_hist, assert_failed,
              late_release, tx_released>>

vars == <<devVars, semVars, cs_, drvVars, openVars, rdVars, wrVars, histVars>>

DrvOff == [init |-> FALSE, power |-> FALSE, tx_en |-> FALSE, rx_en |-> FALSE]
DrvOn == [init |-> TRUE, power |-> TRUE, tx_en |-> TRUE, rx_en |-> TRUE]
NoRx == [active |-> FALSE, ptr |-> 0, num |-> 0, cnt |-> 0]
NoTx == [active |-> FALSE, ptr |-> 0, num |-> 0]

\* The constructor; tx_buf may be null.
Init ==
    /\ rx_sem_ = "null" /\ tx_sem_ = "null"
    /\ rx_buf_ = NewBuffer(RxCap, RxHigh, RxLow)
    /\ tx_buf_ \in {NoBuf, NewBuffer(TxCap, TxHigh, TxLow)}
    /\ rx_count_ = 0 /\ tx_busy_ = FALSE
    /\ rx_tokens = 0 /\ tx_tokens = 0 /\ cs_ = "none"
    /\ drv = DrvOff /\ drv_rx = NoRx /\ drv_tx = NoTx /\ wire = 0
    /\ opened = FALSE /\ o_ret = "none" /\ o_seen = -1 /\ c_pc = "idle"
    /\ r_pc = "idle" /\ r_n = 0 /\ r_ret = 0 /\ r_wakes = 0
    /\ r_first_at = -1 /\ rd_hist = <<>>
    /\ w_pc = "idle" /\ w_n = 0 /\ w_count = 0 /\ w_nb = 0 /\ w_ptr = 0
    /\ w_ret = 0 /\ w_base = 0 /\ w_adm = <<>> /\ w_len0 = 0
    /\ w_first = FALSE /\ send_status = "none"
    /\ rx_hist = <<>> /\ rx_full_seen = FALSE /\ sent_hist = <<>>
    /\ adm_hist = <<>>
    /\ assert_failed = FALSE /\ late_release = FALSE
    /\ tx_released = FALSE


\* ------------------------------------------------------------------ open
\* What can go wrong in one open(): nothing, a semaphore that cannot be
\* created, or a driver call that returns an error.
OpenFaults == {"none", "rx_sem", "tx_sem", "both_sem", "initialize", "power",
               "control_mode", "control_tx", "control_rx", "receive"}

\* doIsOpened()
doIsOpened == rx_sem_ # "null"

\* `if (rx_sem_ != nullptr)`: the guard of do_vopen.
AlreadyOpened_unguarded == FALSE
AlreadyOpened == rx_sem_ # "null"

\* do_vopen.  The calls before the first receive cannot be observed by the
\* callback (the driver raises no event before a transfer is started), so
\* the sequence is one step.
do_vopen(fault) ==
    /\ c_pc = "idle"
    \* no step of the sequence runs on the EEXIST path: no fault to consult
    /\ AlreadyOpened => fault = "none"
    /\ IF AlreadyOpened
       THEN \* Already opened: errno = EEXIST.
            /\ o_ret' = "EEXIST"
            /\ o_seen' = IF o_seen = -1 THEN Len(rx_hist) ELSE o_seen
            /\ UNCHANGED <<devVars, semVars, drvVars, opened>>
       ELSE LET rxOk == fault \notin {"rx_sem", "both_sem"}
                txOk == fault \notin {"tx_sem", "both_sem"}
                semOk == rxOk /\ txOk
                rb == clear(rx_buf_)
            IN  /\ rx_sem_' = IF rxOk THEN "live" ELSE "null"
                /\ tx_sem_' = IF txOk THEN "live" ELSE "null"
                /\ rx_tokens' = IF rxOk THEN 0 ELSE rx_tokens
                /\ tx_tokens' = IF txOk THEN 0 ELSE tx_tokens
                /\ rx_buf_' = IF semOk THEN rb ELSE rx_buf_
                /\ tx_buf_' = IF semOk /\ tx_buf_ # NoBuf
                              THEN clear(tx_buf_) ELSE tx_buf_
                /\ UNCHANGED <<rx_count_, tx_busy_, wire, o_seen>>
                /\ IF fault = "none"
                   THEN /\ drv' = DrvOn
                        /\ drv_rx' = [active |-> TRUE, ptr |-> rb.back,
                                      num |-> getBackContiguousBuffer(rb),
                                      cnt |-> 0]
                        /\ drv_tx' = NoTx
                        /\ o_ret' = "ok"
                        /\ opened' = TRUE
                   ELSE \* power (ARM_POWER_OFF); uninitialize (); ENOSR.
                        /\ drv' = DrvOff
                        /\ drv_rx' = NoRx
                        /\ drv_tx' = NoTx
                        /\ o_ret' = "ENOSR"
                        /\ UNCHANGED opened
    /\ UNCHANGED <<c_pc, rdVars, wrVars, histVars>>
    /\ UNCHANGED cs_

\* ----------------------------------------------------------------- close
\* do_close, statement by statement: the callback can run between any two
\* of them.  The caller holds the device and no read() or write() call is
\* in progress.
CloseFrame ==
    UNCHANGED <<rx_buf_, tx_buf_, rx_count_, tx_busy_, wire, o_ret, o_seen,
                rdVars, wrVars, histVars, cs_>>

\* osSemaphoreDelete (rx_sem_);
do_close_delete_rx ==
    /\ opened /\ c_pc = "idle" /\ r_pc = "idle" /\ w_pc = "idle"
    /\ rx_sem_' = "deleted" /\ rx_tokens' = 0
    /\ c_pc' = "null_rx"
    /\ UNCHANGED <<tx_sem_, tx_tokens, drv, drv_rx, drv_tx, opened>>
    /\ CloseFrame

\* rx_sem_ = nullptr;
do_close_null_rx ==
    /\ c_pc = "null_rx"
    /\ rx_sem_' = "null"
    /\ c_pc' = "delete_tx"
    /\ UNCHANGED <<tx_sem_, semVars, drv, drv_rx, drv_tx, opened>>
    /\ CloseFrame

\* osSemaphoreDelete (tx_sem_);
do_close_delete_tx ==
    /\ c_pc = "delete_tx"
    /\ tx_sem_' = "deleted" /\ tx_tokens' = 0
    /\ c_pc' = "null_tx"
    /\ UNCHANGED <<rx_sem_, rx_tokens, drv, drv_rx, drv_tx, opened>>
    /\ CloseFrame

\* tx_sem_ = nullptr;
do_close_null_tx ==
    /\ c_pc = "null_tx"
    /\ tx_sem_' = "null"
    /\ c_pc' = "control_tx"
    /\ UNCHANGED <<rx_sem_, semVars, drv, drv_rx, drv_tx, opened>>
    /\ CloseFrame

\* driver_->control (ARM_USART_CONTROL_TX, 0);
do_close_control_tx ==
    /\ c_pc = "control_tx"
    /\ drv' = [drv EXCEPT !.tx_en = FALSE]
    /\ c_pc' = "control_rx"
    /\ UNCHANGED <<rx_sem_, tx_sem_, semVars, drv_rx, drv_tx, opened>>
    /\ CloseFrame

\* driver_->control (ARM_USART_CONTROL_RX, 0);
do_close_control_rx ==
    /\ c_pc = "control_rx"
    /\ drv' = [drv EXCEPT !.rx_en = FALSE]
    /\ c_pc' = "power"
    /\ UNCHANGED <<rx_sem_, tx_sem_, semVars, drv_rx, drv_tx, opened>>
    /\ CloseFrame

\* driver_->power (ARM_POWER_OFF); driver_->uninitialize (); return 0;
\* A driver without power raises no event, so the two calls are one step.
do_close_power_off ==
    /\ c_pc = "power"
    /\ drv' = DrvOff /\ drv_rx' = NoRx /\ drv_tx' = NoTx
    /\ c_pc' = "idle"
    /\ opened' = FALSE
    /\ UNCHANGED <<rx_sem_, tx_sem_, semVars>>
    /\ CloseFrame

\* ------------------------------------------------------------------ read
\* read (buf, n) is entered; the caller holds an open device.
do_read_call(n) ==
    /\ opened /\ c_pc = "idle" /\ r_pc = "idle"
    /\ r_pc' = "pop" /\ r_n' = n /\ r_wakes' = 0
    /\ r_first_at' = IF r_first_at = -1 THEN Len(rx_hist) ELSE r_first_at
    /\ UNCHANGED <<r_ret, rd_hist>>
    /\ UNCHANGED <<devVars, semVars, drvVars, openVars, wrVars, histVars>>
    /\ UNCHANGED cs_

\* `Critical_section cs;` in the loop of do_read: the block is entered.
do_read_lock ==
    /\ r_pc = "pop" /\ cs_ = "none"
    /\ cs_' = "reader"
    /\ UNCHANGED <<devVars, semVars, drvVars, openVars, rdVars, wrVars,
                   histVars>>

\* The closing brace of a `Critical_section cs` block entered by `owner`:
\* cs is destroyed and the critical section is left.
BlockEnd_held(owner) == owner
BlockEnd(owner) == "none"

\* `if (count > 0)`: the test that ends the loop of do_read.
ReadReturns_any(count) == count >= 0
ReadReturns(count) == count > 0

\* The body of the critical section, its end, and the test of count that
\* follows the block.  The caller gets
\* the first r_ret' bytes of its buffer, which holds what popFront copied.
do_read_pop ==
    /\ r_pc = "pop" /\ cs_ = "reader"
    /\ LET count == popFront_n(rx_buf_, r_n)
           data == popFront_data(rx_buf_, r_n)
       IN  /\ rx_buf_' = popFront(rx_buf_, r_n)
           /\ IF ReadReturns(count)
              THEN /\ r_pc' = "idle"
                   /\ r_ret' = count
                   /\ rd_hist' = rd_hist \o data
              ELSE /\ r_pc' = "wait"
                   /\ UNCHANGED <<r_ret, rd_hist>>
    /\ UNCHANGED <<r_n, r_wakes, r_first_at>>
    /\ UNCHANGED <<rx_sem_, tx_sem_, tx_buf_, rx_count_, tx_busy_>>
    /\ UNCHANGED <<semVars, drvVars, openVars, wrVars, histVars>>
    /\ cs_' = BlockEnd(cs_)

\* osSemaphoreWait (rx_sem_, osWaitForever) returns.
do_read_wait ==
    /\ r_pc = "wait"
    /\ rx_tokens > 0
    /\ rx_tokens' = rx_tokens - 1
    /\ r_pc' = "pop"
    /\ r_wakes' = r_wakes + 1
    /\ UNCHANGED <<r_n, r_ret, r_first_at, rd_hist, tx_tokens>>
    /\ UNCHANGED <<devVars, drvVars, openVars, wrVars, histVars>>
    /\ UNCHANGED cs_

\* ------------------------------------------------------------ environment
\* The line delivers one byte; the driver stores it in the armed segment.
usart_rx_byte ==
    /\ drv.rx_en /\ drv_rx.active
    /\ drv_rx.cnt < drv_rx.num
    /\ wire < MaxWire
    /\ wire' = wire + 1
    /\ rx_buf_' = [rx_buf_ EXCEPT
                     !.buf[(drv_rx.ptr + drv_rx.cnt) % rx_buf_.size] = wire + 1]
    /\ drv_rx' = [drv_rx EXCEPT !.cnt = drv_rx.cnt + 1]
    /\ UNCHANGED <<rx_sem_, tx_sem_, tx_buf_, rx_count_, tx_busy_>>
    /\ UNCHANGED <<drv, drv_tx, semVars, openVars, rdVars, wrVars, histVars>>
    /\ UNCHANGED cs_


\* ----------------------------------------------------------------- write
\* The user data of the current write() call from offset `from` on.
UserData(from) == [i \in 1 .. w_n - from |-> w_base + from + i]

\* The cells [ptr, ptr + n) of a ring's storage.
Cells(b, ptr, n) == [i \in 1 .. n |-> b.buf[(ptr + i - 1) % b.size]]

\* write (buf, n) is entered; the caller holds an open device.
do_write_call(n) ==
    /\ opened /\ c_pc = "idle" /\ w_pc = "idle"
    /\ w_base + w_n + n <= MaxTxBytes
    /\ w_base' = w_base + w_n
    /\ w_n' = n
    /\ w_count' = 0 /\ w_adm' = <<>> /\ w_first' = TRUE
    /\ w_pc' = IF tx_buf_ # NoBuf THEN "fast" ELSE "u_status"
    /\ UNCHANGED <<w_nb, w_ptr, w_ret, w_len0, send_status>>
    /\ UNCHANGED <<devVars, semVars, drvVars, openVars, rdVars, histVars>>
    /\ UNCHANGED cs_

\* `if (count == nbyte) return nbyte;` and, if not, on to the wait.
WriteTestCount_some(count) ==
    IF count > 0
    THEN w_pc' = "idle" /\ w_ret' = w_n
    ELSE w_pc' = "wait" /\ UNCHANGED w_ret

WriteTestCount(count) ==
    IF count = w_n
    THEN w_pc' = "idle" /\ w_ret' = w_n
    ELSE w_pc' = "wait" /\ UNCHANGED w_ret

\* `Critical_section cs;` in do_write: one of its three blocks is entered.
do_write_lock ==
    /\ w_pc \in {"fast", "front", "push"} /\ cs_ = "none"
    /\ cs_' = "writer"
    /\ UNCHANGED <<devVars, semVars, drvVars, openVars, rdVars, wrVars,
                   histVars>>

\* `if (tx_buf_->isBelowHighWaterMark ())`: the gate of the fast path.
FastPathAdmits_always(b) == TRUE
FastPathAdmits(b) == isBelowHighWaterMark(b)

\* The first critical section: the fast path.
do_write_fast ==
    /\ w_pc = "fast" /\ cs_ = "writer"
    /\ LET data == UserData(0)
           count == IF FastPathAdmits(tx_buf_)
                    THEN pushBack_n(tx_buf_, data) ELSE 0
       IN  /\ tx_buf_' = IF FastPathAdmits(tx_buf_)
                         THEN pushBack(tx_buf_, data) ELSE tx_buf_
           /\ w_count' = count
           /\ w_adm' = SubSeq(data, 1, count)
           /\ adm_hist' = adm_hist \o SubSeq(data, 1, count)
           /\ w_len0' = tx_buf_.len
    /\ w_pc' = "busy"
    /\ UNCHANGED <<w_n, w_nb, w_ptr, w_ret, w_base, w_first, send_status>>
    /\ UNCHANGED <<rx_sem_, tx_sem_, rx_buf_, rx_count_, tx_busy_>>
    /\ UNCHANGED <<semVars, drvVars, openVars, rdVars>>
    /\ UNCHANGED <<rx_hist, rx_full_seen, sent_hist, assert_failed,
                   late_release, tx_released>>
    /\ cs_' = BlockEnd(cs_)

\* `if (!tx_busy_)`: the test that lets write() call driver_->send.
TxIdle_always == TRUE
TxIdle == ~tx_busy_

\* `if (!tx_busy_)`: the flag is read outside any critical section.
do_write_busy ==
    /\ w_pc = "busy"
    /\ IF TxIdle
       THEN w_pc' = "front" /\ UNCHANGED w_ret
       ELSE WriteTestCount(w_count)
    /\ UNCHANGED <<w_n, w_count, w_nb, w_ptr, w_base, w_adm, w_len0, w_first,
                   send_status>>
    /\ UNCHANGED <<devVars, semVars, drvVars, openVars, rdVars, histVars>>
    /\ UNCHANGED cs_

\* The critical section around getFrontContiguousBuffer.
do_write_front ==
    /\ w_pc = "front" /\ cs_ = "writer"
    /\ w_nb' = getFrontContiguousBuffer(tx_buf_)
    /\ w_ptr' = tx_buf_.front
    /\ IF getFrontContiguousBuffer(tx_buf_) > 0
       THEN w_pc' = "send" /\ UNCHANGED w_ret
       ELSE WriteTestCount(w_count)
    /\ UNCHANGED <<w_n, w_count, w_base, w_adm, w_len0, w_first, send_status>>
    /\ UNCHANGED <<devVars, semVars, drvVars, openVars, rdVars, histVars>>
    /\ cs_' = BlockEnd(cs_)

\* `if (driver_->send (pbuf, nb) != ARM_DRIVER_OK)`
SendAccepted_unchecked(status) == TRUE
SendAccepted(status) == status = "ok"

\* driver_->send (pbuf, nb).  The driver accepts or rejects the call; it
\* rejects it while an earlier send is in progress.  A rejected send starts
\* no transfer.
do_write_send(status) ==
    /\ w_pc = "send"
    /\ status = "ok" => ~drv_tx.active
    /\ send_status' = status
    \* the driver: an accepted send starts the transfer of the segment
    /\ drv_tx' = IF status = "ok"
                 THEN [active |-> TRUE, ptr |-> w_ptr, num |-> w_nb]
                 ELSE drv_tx
    /\ sent_hist' = IF status = "ok"
                    THEN sent_hist \o Cells(tx_buf_, w_ptr, w_nb)
                    ELSE sent_hist
    \* the code: on to `tx_busy_ = true`, or `errno = EIO; return -1;`
    /\ IF SendAccepted(status)
       THEN w_pc' = "setbusy" /\ UNCHANGED w_ret
       ELSE w_pc' = "idle" /\ w_ret' = -1
    /\ UNCHANGED <<w_n, w_count, w_nb, w_ptr, w_base, w_adm, w_len0, w_first>>
    /\ UNCHANGED <<devVars, semVars, drv, drv_rx, wire, openVars, rdVars>>
    /\ UNCHANGED <<rx_hist, rx_full_seen, adm_hist, assert_failed,
                   late_release, tx_released>>
    /\ UNCHANGED cs_

\* `tx_busy_ = true;` and the test of count that follows it.
do_write_setbusy ==
    /\ w_pc = "setbusy"
    /\ tx_busy_' = TRUE
    /\ WriteTestCount(w_count)
    /\ UNCHANGED <<w_n, w_count, w_nb, w_ptr, w_base, w_adm, w_len0, w_first,
                   send_status>>
    /\ UNCHANGED <<rx_sem_, tx_sem_, rx_buf_, tx_buf_, rx_count_>>
    /\ UNCHANGED <<semVars, drvVars, openVars, rdVars, histVars>>
    /\ UNCHANGED cs_

\* osSemaphoreWait (tx_sem_, osWaitForever) returns.
do_write_wait ==
    /\ w_pc = "wait"
    /\ tx_tokens > 0
    /\ tx_tokens' = tx_tokens - 1
    /\ w_pc' = "push"
    /\ w_first' = FALSE
    /\ UNCHANGED <<w_n, w_count, w_nb, w_ptr, w_ret, w_base, w_adm, w_len0,
                   send_status, rx_tokens>>
    /\ UNCHANGED <<devVars, drvVars, openVars, rdVars, histVars>>
    /\ UNCHANGED cs_

\* The critical section after the wait: push what is left of the data.
do_write_push ==
    /\ w_pc = "push" /\ cs_ = "writer"
    /\ IF w_count < w_n
       THEN LET data == UserData(w_count)
                n == pushBack_n(tx_buf_, data)
            IN  /\ tx_buf_' = pushBack(tx_buf_, data)
                /\ w_count' = w_count + n
                /\ w_adm' = w_adm \o SubSeq(data, 1, n)
                /\ adm_hist' = adm_hist \o SubSeq(data, 1, n)
       ELSE UNCHANGED <<tx_buf_, w_count, w_adm, adm_hist>>
    /\ w_pc' = "busy"
    /\ UNCHANGED <<w_n, w_nb, w_ptr, w_ret, w_base, w_len0, w_first,
                   send_status>>
    /\ UNCHANGED <<rx_sem_, tx_sem_, rx_buf_, rx_count_, tx_busy_>>
    /\ UNCHANGED <<semVars, drvVars, openVars, rdVars>>
    /\ UNCHANGED <<rx_hist, rx_full_seen, sent_hist, assert_failed,
                   late_release, tx_released>>
    /\ cs_' = BlockEnd(cs_)


\* Unbuffered mode (tx_buf_ == nullptr): driver_->get_status ().tx_busy.
do_write_status ==
    /\ w_pc = "u_status"
    /\ w_pc' = IF drv_tx.active THEN "u_wait1" ELSE "u_send"
    /\ UNCHANGED <<w_n, w_count, w_nb, w_ptr, w_ret, w_base, w_adm, w_len0,
                   w_first, send_status>>
    /\ UNCHANGED <<devVars, semVars, drvVars, openVars, rdVars, histVars>>
    /\ UNCHANGED cs_

\* Unbuffered mode: either osSemaphoreWait (tx_sem_, osWaitForever) returns.
do_write_uwait_nowait ==
    /\ w_pc \in {"u_wait1", "u_wait2"}
    /\ tx_tokens' = IF tx_tokens > 0 THEN tx_tokens - 1 ELSE 0
    /\ w_pc' = IF w_pc = "u_wait1" THEN "u_send" ELSE "u_count"
    /\ w_first' = FALSE
    /\ UNCHANGED <<w_n, w_count, w_nb, w_ptr, w_ret, w_base, w_adm, w_len0,
                   send_status, rx_tokens>>
    /\ UNCHANGED <<devVars, drvVars, openVars, rdVars, histVars>>
    /\ UNCHANGED cs_
do_write_uwait ==
    /\ w_pc \in {"u_wait1", "u_wait2"}
    /\ tx_tokens > 0
    /\ tx_tokens' = tx_tokens - 1
    /\ w_pc' = IF w_pc = "u_wait1" THEN "u_send" ELSE "u_count"
    /\ w_first' = FALSE
    /\ UNCHANGED <<w_n, w_count, w_nb, w_ptr, w_ret, w_base, w_adm, w_len0,
                   send_status, rx_tokens>>
    /\ UNCHANGED <<devVars, drvVars, openVars, rdVars, histVars>>
    /\ UNCHANGED cs_

\* Unbuffered mode: driver_->send (buf, nbyte), from the user's buffer.
do_write_usend(status) ==
    /\ w_pc = "u_send"
    /\ status = "ok" => ~drv_tx.active
    /\ send_status' = status
    \* the driver: an accepted send starts the transfer of the user's data
    /\ drv_tx' = IF status = "ok"
                 THEN [active |-> TRUE, ptr |-> 0, num |-> w_n]
                 ELSE drv_tx
    /\ sent_hist' = IF status = "ok" THEN sent_hist \o UserData(0)
                    ELSE sent_hist
    \* the code: on to the wait, or `count = -1; errno = EIO;`
    /\ IF status = "ok"
       THEN w_pc' = "u_wait2" /\ UNCHANGED <<w_ret, w_count>>
       ELSE w_pc' = "idle" /\ w_ret' = -1 /\ w_count' = -1
    /\ UNCHANGED <<w_n, w_nb, w_ptr, w_base, w_adm, w_len0, w_first>>
    /\ UNCHANGED <<devVars, semVars, drv, drv_rx, wire, openVars, rdVars>>
    /\ UNCHANGED <<rx_hist, rx_full_seen, adm_hist, assert_failed,
                   late_release, tx_released>>
    /\ UNCHANGED cs_

\* get_tx_count (): the bytes of the last send that are out; all of them
\* once the send has completed.
get_tx_count == IF drv_tx.active THEN 0 .. drv_tx.num ELSE {drv_tx.num}

\* Unbuffered mode: `count = driver_->get_tx_count (); return count;`
do_write_ucount ==
    /\ w_pc = "u_count"
    /\ \E c \in get_tx_count :
          /\ w_count' = c
          /\ w_ret' = c
    /\ w_pc' = "idle"
    /\ UNCHANGED <<w_n, w_nb, w_ptr, w_base, w_adm, w_len0, w_first,
                   send_status>>
    /\ UNCHANGED <<devVars, semVars, drvVars, openVars, rdVars, histVars>>
    /\ UNCHANGED cs_

\* -------------------------------------------------------------- callback
\* The flags of ARM_USART_EVENT_* the code looks at.
RxFlags == {"RECEIVE_COMPLETE", "RX_FRAMING_ERROR", "RX_TIMEOUT"}
Events == (SUBSET (RxFlags \cup {"TX_COMPLETE"})) \ {{}}

\* The events the driver can raise in the current state: a receive event
\* only for an armed receive, RECEIVE_COMPLETE exactly when its segment is
\* full, TX_COMPLETE only for a send in progress.
Deliverable(event) ==
    /\ drv.power
    /\ (event \cap RxFlags # {}) =>
          /\ drv.rx_en /\ drv_rx.active
          /\ ("RECEIVE_COMPLETE" \in event) <=> (drv_rx.cnt = drv_rx.num)
    /\ ("TX_COMPLETE" \in event) => (drv.tx_en /\ drv_tx.active)

\* `count = tmpCount - rx_count_`, in std::size_t.
RxDelta(tmpCount) == (tmpCount - rx_count_) % SizeMod

\* rx_count_ after the event: `rx_count_ = tmpCount`, and `rx_count_ = 0`
\* once the receive is re-armed.
RxBaseline_kept(rearm, tmpCount) == IF rearm THEN 0 ELSE rx_count_
RxBaseline(rearm, tmpCount) == IF rearm THEN 0 ELSE tmpCount

\* The ring the receive is re-armed on: a full ring gives up its newest byte.
RxRearm_noretreat(b) == b
RxRearm(b) ==
    IF getBackContiguousBuffer(b) = 0 THEN retreatBack(b) ELSE b

\* osSemaphoreRelease (id) called from the callback on a semaphore that
\* holds `tokens`: the token counts it can leave.  A null id is refused
\* (osErrorParameter).  The id of a deleted semaphore is dangling: its
\* control block, static storage of the device (osSemaphoreDef), may or may
\* not take the token.
ReleaseOutcomes(id, tokens) ==
    IF id = "live" THEN {osSemaphoreRelease(tokens)}
    ELSE IF id = "deleted" THEN {tokens, osSemaphoreRelease(tokens)}
    ELSE {tokens}

\* `if (count > 0) osSemaphoreRelease (rx_sem_)`: the tokens afterwards.
RxWake_highwater(count, b) ==
    IF count > 0 /\ ~isBelowHighWaterMark(b) /\ rx_sem_ = "live"
    THEN osSemaphoreRelease(rx_tokens) ELSE rx_tokens
RxWake(count, b) ==
    IF count > 0 /\ rx_sem_ = "live"
    THEN osSemaphoreRelease(rx_tokens) ELSE rx_tokens

\* The transmit part calls osSemaphoreRelease (tx_sem_): with a tx ring,
\* `if (tx_buf_->isBelowLowWaterMark ())` after advanceFront; without one,
\* always.
TxWake_always(b) == TRUE
TxWake(b) == IF tx_buf_ # NoBuf THEN isBelowLowWaterMark(b) ELSE TRUE

\* `adjust = tx_buf_->advanceFront (count)`: the ring once the callback has
\* committed the bytes of the send that is complete.
TxCommit_none(b, count) == b
TxCommit(b, count) == advanceFront(b, count)

\* `if (nbyte > 0) driver_->send (pbuf, nbyte); else tx_busy_ = false;`:
\* the callback sends the next segment of the ring.
TxResend(nbyte) == nbyte > 0

\* do_signal_event (event), in interrupt context.
do_signal_event(event) ==
    /\ Deliverable(event)
    /\ cs_ = "none"
    /\ LET rxev == event \cap RxFlags # {}
           rearm == "RECEIVE_COMPLETE" \in event
           txev == "TX_COMPLETE" \in event
           \* receive part
           tmpCount == drv_rx.cnt
           count == RxDelta(tmpCount)
           adjust == advanceBack_n(rx_buf_, count)
           b1 == advanceBack(rx_buf_, count)
           b2 == RxRearm(b1)
           nbyte == getBackContiguousBuffer(b2)
           \* transmit part
           tcount == drv_tx.num
           tadjust == advanceFront_n(tx_buf_, tcount)
           t1 == IF tx_buf_ # NoBuf THEN TxCommit(tx_buf_, tcount)
                 ELSE tx_buf_
           tnbyte == getFrontContiguousBuffer(t1)
       IN  /\ IF rxev
              THEN /\ rx_buf_' = IF rearm THEN b2 ELSE b1
                   /\ rx_count_' = RxBaseline(rearm, tmpCount)
                   /\ drv_rx' = IF rearm
                                THEN [active |-> TRUE, ptr |-> b2.back,
                                      num |-> nbyte, cnt |-> 0]
                                ELSE drv_rx
                   /\ IF count > 0 /\ rx_sem_ = "deleted"
                      THEN rx_tokens' \in ReleaseOutcomes(rx_sem_, rx_tokens)
                      ELSE rx_tokens' =
                             RxWake(count, IF rearm THEN b2 ELSE b1)
                   /\ rx_hist' = rx_hist \o Cells(rx_buf_, rx_buf_.back, adjust)
                   /\ rx_full_seen' = (rx_full_seen \/ b1.len = b1.size)
              ELSE UNCHANGED <<rx_buf_, rx_count_, drv_rx, rx_tokens, rx_hist,
                               rx_full_seen>>
           /\ IF txev
              THEN /\ tx_buf_' = t1
                   /\ IF tx_buf_ # NoBuf /\ TxResend(tnbyte)
                      THEN /\ drv_tx' = [active |-> TRUE, ptr |-> t1.front,
                                         num |-> tnbyte]
                           /\ sent_hist' = sent_hist \o
                                             Cells(t1, t1.front, tnbyte)
                           /\ UNCHANGED tx_busy_
                      ELSE /\ drv_tx' = [drv_tx EXCEPT !.active = FALSE]
                           /\ tx_busy_' = IF tx_buf_ # NoBuf THEN FALSE
                                          ELSE tx_busy_
                           /\ UNCHANGED sent_hist
                   /\ tx_released' = TxWake(t1)
                   /\ IF TxWake(t1)
                      THEN tx_tokens' \in ReleaseOutcomes(tx_sem_, tx_tokens)
                      ELSE tx_tokens' = tx_tokens
              ELSE UNCHANGED <<tx_buf_, tx_busy_, drv_tx, tx_tokens, sent_hist,
                               tx_released>>
           /\ assert_failed' = \/ assert_failed
                               \/ rxev /\ count # adjust
                               \/ rxev /\ rearm /\ nbyte = 0
                               \/ txev /\ tx_buf_ # NoBuf /\ tcount # tadjust
           /\ late_release' = \/ late_release
                              \/ rxev /\ count > 0 /\ rx_sem_ # "live"
                              \/ txev /\ TxWake(t1) /\ tx_sem_ # "live"
    /\ UNCHANGED <<rx_sem_, tx_sem_, drv, wire, adm_hist>>
    /\ UNCHANGED <<openVars, rdVars, wrVars>>
    /\ UNCHANGED cs_

\* ------------------------------------------------------- specifications
OpenStep == \E fault \in OpenFaults : do_vopen(fault)
ReadStep ==
    \/ \E n \in 1 .. MaxReadLen : do_read_call(n)
    \/ do_read_lock
    \/ do_read_pop
    \/ do_read_wait
WriteStep ==
    \/ \E n \in 1 .. MaxTxBytes : do_write_call(n)
    \/ do_write_lock
    \/ do_write_fast
    \/ do_write_busy
    \/ do_write_front
    \/ \E status \in {"ok", "error"} : do_write_send(status)
    \/ do_write_setbusy
    \/ do_write_wait
    \/ do_write_push
    \/ do_write_status
    \/ do_write_uwait
    \/ \E status \in {"ok", "error"} : do_write_usend(status)
    \/ do_write_ucount
Interrupt == \E event \in Events : do_signal_event(event)

CloseStep ==
    \/ do_close_delete_rx
    \/ do_close_null_rx
    \/ do_close_delete_tx
    \/ do_close_null_tx
    \/ do_close_control_tx
    \/ do_close_control_rx
    \/ do_close_power_off

\* The whole device.
Next ==
    OpenStep \/ CloseStep \/ ReadStep \/ WriteStep \/ usart_rx_byte \/ Interrupt
Spec == Init /\ [][Next]_vars

\* The receive direction: the application never writes, so the device is
\* taken with a tx ring.
RxInit == Init /\ tx_buf_ # NoBuf
RxNext == OpenStep \/ ReadStep \/ usart_rx_byte \/ Interrupt
RxSpec == RxInit /\ [][RxNext]_vars

\* The transmit direction: the line is silent and the application never reads.
TxNext == OpenStep \/ WriteStep \/ Interrupt
TxSpec == Init /\ [][TxNext]_vars


\* Sessions of the transmit direction: the device is opened, written to,
\* closed and opened again; the line is silent.
TxLifeNext == OpenStep \/ CloseStep \/ WriteStep \/ Interrupt
TxLifeSpec == Init /\ [][TxLifeNext]_vars

\* Sessions of the receive direction: the device is opened, closed and
\* opened again while the line delivers bytes; the application leaves the
\* bytes in the ring.
RxLifeNext == OpenStep \/ CloseStep \/ usart_rx_byte \/ Interrupt
RxLifeSpec == RxInit /\ [][RxLifeNext]_vars

\* Both threads at once, on a short run: the line delivers CsWire bytes and
\* the application passes CsTxBytes bytes to write(), in one call.
CsNext ==
    \/ OpenStep
    \/ ReadStep
    \/ WriteStep /\ w_n' = CsTxBytes
    \/ usart_rx_byte /\ wire < CsWire
    \/ Interrupt
CsSpec == Init /\ [][CsNext]_vars

\* A fair scheduler runs the reader thread whenever it can take a step.
RxFairSpec ==
    /\ RxSpec
    /\ WF_vars(do_read_lock) /\ WF_vars(do_read_pop) /\ WF_vars(do_read_wait)

\* A fair scheduler runs the writer thread whenever it can take a step, and
\* the driver completes every send it has accepted.
RxEvent ==
    \E event \in Events : event \cap RxFlags # {} /\ do_signal_event(event)
TxComplete ==
    \E event \in Events : "TX_COMPLETE" \in event /\ do_signal_event(event)
TxFairSpec ==
    /\ TxSpec
    /\ WF_vars(do_write_lock)
    /\ WF_vars(do_write_fast) /\ WF_vars(do_write_busy)
    /\ WF_vars(do_write_front)
    /\ WF_vars(\E status \in {"ok", "error"} : do_write_send(status))
    /\ WF_vars(do_write_setbusy) /\ WF_vars(do_write_wait)
    /\ WF_vars(do_write_push)
    /\ WF_vars(TxComplete)

\* ------------------------------------------------------------------ claims
Buffered == tx_buf_ # NoBuf
\* The bytes 1 .. n in order.
Upto(n) == [i \in 1 .. n |-> i]

\* C1: while the rx ring has never been full, the bytes returned by the
\* read() calls so far, followed by the bytes still in the ring, are exactly
\* the bytes the callback has committed, in order; and the committed bytes
\* are the bytes of the line in arrival order.
C1_ReadsAreCommits ==
    ~rx_full_seen =>
        /\ rd_hist \o Contents(rx_buf_) = rx_hist
        /\ rx_hist = Upto(Len(rx_hist))
\* Every byte of the line has been read, in several calls and around the
\* end of the storage, and the ring was never full.
C1_Witness ==
    /\ ~rx_full_seen /\ r_pc = "idle"
    /\ rd_hist = Upto(MaxWire) /\ MaxWire > RxCap

\* C2: a reader inside read() with committed bytes in the ring returns, under
\* fair scheduling of the reader.
C2_NoLostWakeup ==
    (r_pc \in {"pop", "wait"} /\ rx_buf_.len > 0) ~> (r_pc = "idle")
\* The callback has committed bytes and released the semaphore while the
\* reader was past its empty pop and not yet through its wait.
C2_Witness == r_pc = "wait" /\ rx_buf_.len > 0 /\ rx_tokens > 0

\* C3: a read() call that has returned has returned between 1 and nbyte.
C3_ReadNeverZero ==
    (r_pc = "idle" /\ r_n > 0) => (1 <= r_ret /\ r_ret <= r_n)
\* A call has returned after two wakes: the first one found the ring empty.
C3_Witness == r_pc = "idle" /\ r_wakes >= 2 /\ r_ret >= 1

\* The case of C4: the line has delivered exactly RxCap bytes, and all of
\* them were committed before the first read() call was entered.
BurstThenRead == wire = RxCap /\ r_first_at = RxCap

\* C4 as stated: after the burst the read() calls return RxCap bytes.
C4_BurstFullyRead ==
    (BurstThenRead /\ r_pc = "idle" /\ rx_buf_.len = 0) =>
        Len(rd_hist) = RxCap
\* C4 amended: after the burst the read() calls return the first RxCap - 1
\* bytes; the callback re-armed the receive on a full ring and gave up the
\* newest byte.
C4_BurstLosesNewest ==
    BurstThenRead => rd_hist \o Contents(rx_buf_) = Upto(RxCap - 1)
C4_Witness ==
    /\ BurstThenRead /\ r_pc = "idle" /\ rx_buf_.len = 0
    /\ Len(rd_hist) = RxCap - 1

\* C5: after an open() that failed the driver is off and the device is not
\* open.
C5_FailedOpenRollsBack ==
    o_ret = "ENOSR" => (drv = DrvOff /\ ~doIsOpened)

\* C6: an open() on a device that is already open reports EEXIST and changes
\* nothing of the device, its semaphores or the driver.
C6_SecondOpenChangesNothing ==
    [][(doIsOpened /\ OpenStep) =>
          /\ o_ret' = "EEXIST"
          /\ UNCHANGED <<devVars, semVars, drvVars, opened>>]_vars
\* A second open() was refused after bytes had been committed and before
\* any read() call; the read() calls since have returned those bytes.
C6_Witness ==
    /\ o_ret = "EEXIST" /\ opened /\ drv_rx.active
    /\ o_seen >= 2 /\ r_first_at > o_seen
    /\ r_pc = "idle" /\ rd_hist = Upto(Len(rd_hist)) /\ Len(rd_hist) >= o_seen

\* C7: in buffered mode a write() call that has returned has returned
\* nbyte, with all of its bytes pushed into the tx ring, or -1.
C7_WriteAllOrError ==
    (Buffered /\ w_pc = "idle" /\ w_n > 0) =>
        \/ w_ret = -1
        \/ w_ret = w_n /\ w_adm = UserData(0)
\* A write() of more bytes than the ring holds has returned nbyte.
C7_Witness ==
    Buffered /\ w_pc = "idle" /\ w_n > TxCap /\ w_ret = w_n

\* C8: in buffered mode a write() of more bytes than the tx ring holds
\* returns, when the writer is scheduled fairly and every accepted send
\* completes.
C8_WriteReturns ==
    (Buffered /\ w_pc # "idle" /\ w_n > TxCap) ~> (w_pc = "idle")

\* The case of C9: the fast path found the tx ring empty, and the call has
\* not yet handed a segment to the driver or waited.
FastPathDone ==
    Buffered /\ w_first /\ w_pc \in {"busy", "front", "send"}
\* C9 as stated: the fast path on an empty ring admits at most TxHigh bytes.
C9_FastPathAtMostHigh ==
    (FastPathDone /\ w_len0 = 0) => w_count <= TxHigh
\* C9 amended: the fast path admits nothing when the ring is at or above
\* its high watermark, and otherwise as much as the free space takes: on an
\* empty ring min(nbyte, capacity).
C9_FastPathFillsFreeSpace ==
    FastPathDone =>
        w_count = IF w_len0 < TxHigh THEN Min(w_n, TxCap - w_len0) ELSE 0
C9_Witness ==
    /\ FastPathDone /\ w_len0 = 0 /\ w_pc = "send"
    /\ w_count = TxCap /\ w_count > TxHigh

\* C10: when the driver rejects the send of write(), write() returns -1 at
\* once; the tx ring, tx_busy_ and the tx semaphore are as they were.
C10_SendFailure ==
    [][(Buffered /\ w_pc = "send" /\ w_pc' # "send" /\ send_status' = "error")
          => /\ w_pc' = "idle" /\ w_ret' = -1
             /\ UNCHANGED <<tx_buf_, tx_busy_, tx_tokens, drv_tx>>]_vars
\* A write() has failed on its first send with its bytes still queued.
C10_Witness ==
    /\ Buffered /\ w_pc = "idle" /\ w_ret = -1 /\ send_status = "error"
    /\ tx_buf_.len > 0 /\ Contents(tx_buf_) = w_adm /\ ~tx_busy_

\* C11: in unbuffered mode a write() whose send was accepted returns the
\* driver's count of transferred bytes, and returns it only once the
\* transmit-complete event of that send has been handled; a write() whose
\* send was rejected returns -1 from the send, without taking a token of the
\* tx semaphore.
C11_UnbufferedWrite ==
    [][/\ (~Buffered /\ w_pc = "u_count" /\ w_pc' = "idle") =>
             /\ ~drv_tx.active /\ tx_released
             /\ drv_tx.num = w_n /\ w_ret' = w_n
       /\ (~Buffered /\ w_pc = "u_send" /\ w_pc' # "u_send"
             /\ send_status' = "error") =>
             /\ w_pc' = "idle" /\ w_ret' = -1
             /\ UNCHANGED <<tx_tokens, drv_tx>>]_vars
\* An unbuffered write() that follows an earlier call has returned its nbyte,
\* its send complete and its token taken.
C11_Witness ==
    /\ ~Buffered /\ w_pc = "idle" /\ w_ret = w_n /\ w_n >= 2
    /\ w_base > 0 /\ send_status = "ok" /\ ~drv_tx.active /\ tx_tokens = 0

\* The state the first open() of a freshly constructed device leaves.
FreshlyOpened ==
    /\ rx_sem_ = "live" /\ tx_sem_ = "live" /\ rx_tokens = 0 /\ tx_tokens = 0
    /\ rx_buf_.len = 0 /\ rx_buf_.front = 0 /\ rx_buf_.back = 0
    /\ tx_buf_.len = 0 /\ tx_buf_.front = 0 /\ tx_buf_.back = 0
    /\ ~tx_busy_ /\ rx_count_ = 0
    /\ drv = DrvOn /\ drv_tx = NoTx
    /\ drv_rx = [active |-> TRUE, ptr |-> 0, num |-> RxCap, cnt |-> 0]

\* C12: close() leaves the device not open, and every open() that succeeds,
\* the first one or one after a close(), leaves the device in the state of
\* the first open() of a freshly constructed device.
C12_ReopenIsClean ==
    [][/\ do_close_power_off => ~doIsOpened'
       /\ (OpenStep /\ o_ret' = "ok") => FreshlyOpened']_vars

\* C13: while the device is open a driver receive into a segment of at least
\* one byte is outstanding, after the open() and after every receive event
\* the callback has handled, a full ring included; `assert(nbyte > 0)` holds
\* at every re-arm.
C13_ReceiverArmed ==
    (opened /\ c_pc = "idle") =>
        /\ drv.rx_en /\ drv_rx.active
        /\ drv_rx.num >= 1 /\ drv_rx.cnt <= drv_rx.num
\* The callback has re-armed the receive on a full ring: the ring holds one
\* byte less than its capacity and the one-byte segment is outstanding.
C13_Witness ==
    /\ opened /\ rx_full_seen /\ Len(rx_hist) = RxCap
    /\ rx_buf_.len = RxCap - 1 /\ rx_count_ = 0
    /\ drv_rx.active /\ drv_rx.num = 1 /\ drv_rx.cnt = 0

\* C14: in buffered mode, whenever the writer is not between its
\* driver_->send call and `tx_busy_ = true`, tx_busy_ is set only while a
\* send is outstanding.
C14_TxBusyAccurate ==
    (Buffered /\ w_pc # "setbusy") => (tx_busy_ => drv_tx.active)

\* C15: every receive event commits exactly the bytes the driver has stored
\* in the armed segment since the event before it, with no assert of the
\* callback failing, and rx_count_ is 0 whenever a receive has just been
\* armed, by open() or by the callback.
C15_ReceiveAccounting ==
    [][/\ RxEvent =>
             /\ rx_count_ <= drv_rx.cnt
             /\ rx_hist' = rx_hist \o
                   Cells(rx_buf_, drv_rx.ptr + rx_count_,
                         drv_rx.cnt - rx_count_)
             /\ assert_failed' = assert_failed
       /\ (drv_rx' # drv_rx /\ drv_rx'.active /\ drv_rx'.cnt = 0) =>
             rx_count_' = 0]_vars

\* C16: a thread that waits on the rx or tx semaphore is not inside a
\* critical section, so that the callback can run whenever every thread
\* that is in a call sleeps; and the callback, once the driver raises an
\* event outside a critical section, runs to its end without waiting.
C16_NoWaitInCriticalSection ==
    /\ r_pc = "wait" => cs_ # "reader"
    /\ w_pc \in {"wait", "u_wait1", "u_wait2"} => cs_ # "writer"
    /\ (r_pc \in {"idle", "wait"} /\ w_pc \in {"idle", "wait", "u_wait2"}) =>
          cs_ = "none"
    /\ \A event \in Events :
          (Deliverable(event) /\ cs_ = "none") => ENABLED do_signal_event(event)
\* The reader and the writer both sleep, with no token to wake them, while a
\* send is in flight; the critical section is free.
C16_Witness ==
    /\ r_pc = "wait" /\ rx_tokens = 0
    /\ w_pc = "wait" /\ tx_tokens = 0
    /\ drv_tx.active /\ cs_ = "none"

\* C17: a transmit-complete event releases the tx semaphore, with a tx ring,
\* exactly when the ring is below its low watermark once the transferred
\* bytes are committed, and without a tx ring, always; an event that does
\* not release leaves the tokens alone.
C17_TxWakeHysteresis ==
    [][TxComplete =>
          /\ tx_released' = (Buffered => tx_buf_'.len < TxLow)
          /\ tx_sem_ = "live" =>
                tx_tokens' = IF tx_released' THEN osSemaphoreRelease(tx_tokens)
                             ELSE tx_tokens]_vars
\* The callback has committed a segment and sent the next one of a ring that
\* stays at or above its low watermark, without a release; the writer sleeps.
C17_Witness ==
    /\ Buffered /\ ~tx_released /\ tx_buf_.front # 0
    /\ tx_buf_.len >= TxLow /\ drv_tx.active
    /\ w_pc = "wait" /\ tx_tokens = 0

C19_OneSendOutstanding ==
    [][Buffered =>
          /\ (w_pc = "send" \/ w_pc' = "send") => ~drv_tx.active
          /\ sent_hist' # sent_hist =>
                \/ w_pc = "send" /\ ~drv_tx.active /\ ~TxComplete
                \/ w_pc # "send" /\ drv_tx.active /\ TxComplete]_vars
\* write() is at its send call with the line idle, after the callback has
\* sent a segment of its own.
C19_Witness ==
    /\ Buffered /\ w_pc = "send" /\ ~drv_tx.active
    /\ tx_buf_.front # 0 /\ Len(sent_hist) >= TxCap

\* C20: the callback never calls osSemaphoreRelease on a semaphore that
\* close() has deleted, or on the null id close() leaves: the driver raises
\* no receive or transmit-complete event that wakes a thread once close()
\* has deleted the semaphore of that direction.
C20_NoReleaseAfterDelete == ~late_release

=============================================================================
